---- MODULE Spec2Model ----
(***************************************************************************)
(* ECM Assistant (server.js): the text-to-document rendering pipeline.     *)
(*                                                                         *)
(* A JavaScript string is a sequence of characters; a character is a       *)
(* one-character TLA+ string.  The module's lexer is ASCII only, so the    *)
(* non-ASCII characters the source names are written as the atoms BULLET   *)
(* (U+2022), POUND (U+00A3), ENDASH (U+2013) and EMDASH (U+2014), and      *)
(* NONASCII stands for any other character above U+007E.                   *)
(*                                                                         *)
(* Four specifications share the module:                                   *)
(*   SpecWrap  wrap() applied to bounded inputs          (server.js 173)   *)
(*   SpecPdf   buildPdfBufferStructured(), row by row    (server.js 150)   *)
(*   Spec      the POST /ask handler, with the clock and the index preload *)
(*             running beside it                         (server.js 212)   *)
(*   SpecDoc   the POST /ask handler alone, on many report texts           *)
(***************************************************************************)
EXTENDS Integers, Sequences, FiniteSets, TLC

VARIABLES
  \* wrap() harness
  wpc, wtxt, wmax, wrows,
  \* buildPdfBufferStructured
  ppc, page, pageCount, y, drawn, calls, ci, rows,
  \* POST /ask
  pc, text, reportText, ts, clock, globalIndex, count,
  docParagraphs, pdfBuf, docBuf, threw, mailed, status

wvars == <<wpc, wtxt, wmax, wrows>>
pvars == <<ppc, page, pageCount, y, drawn, calls, ci, rows>>
avars == <<pc, text, reportText, ts, clock, globalIndex, count,
           docParagraphs, pdfBuf, docBuf, threw, mailed, status>>
vars == <<wvars, pvars, avars>>

(***************************************************************************)
(* Bounds of the model.                                                    *)
(***************************************************************************)
MaxLen == 5        \* longest input string handed to wrap() in SpecWrap
MaxWidth == 14     \* widest maxWidth (points) handed to wrap() in SpecWrap
PageWidth == 120   \* page.getSize().width in points (pdf-lib's page size)
PageHeight == 160  \* page.getSize().height in points
MaxChunks == 3     \* chunks making up a report text in SpecPdf and SpecDoc
MaxIndex == 2      \* most vectors a loaded index holds

(***************************************************************************)
(* Characters and strings.                                                 *)
(***************************************************************************)
BULLET == "u2022"
POUND == "u00A3"
ENDASH == "u2013"
EMDASH == "u2014"
NONASCII == "u00E9"

Digits == {"0", "1", "2", "3", "4", "5", "6", "7", "8", "9"}
Upper == {"A", "B", "C", "D", "E", "F", "G", "H", "I", "J", "K", "L", "M",
          "N", "O", "P", "Q", "R", "S", "T", "U", "V", "W", "X", "Y", "Z"}

\* The regular-expression class \s, and what String.prototype.trim removes.
IsSpace(c) == c \in {" ", "\t", "\n", "\r"}

RECURSIVE Concat(_)
Concat(ss) == IF ss = <<>> THEN <<>> ELSE Head(ss) \o Concat(Tail(ss))

RECURSIVE TrimLeft(_)
TrimLeft(s) ==
  IF s # <<>> /\ IsSpace(Head(s)) THEN TrimLeft(Tail(s)) ELSE s

RECURSIVE TrimRight(_)
TrimRight(s) ==
  IF s # <<>> /\ IsSpace(s[Len(s)])
  THEN TrimRight(SubSeq(s, 1, Len(s) - 1)) ELSE s

\* String.prototype.trim
Trim(s) == TrimRight(TrimLeft(s))

\* String.prototype.startsWith
StartsWith(s, p) == Len(s) >= Len(p) /\ SubSeq(s, 1, Len(p)) = p

(***************************************************************************)
(* sanitizeForPdf: keep tab, LF, CR, 0x20-0x7E, the pound sign and the two *)
(* dashes; drop everything else; trim.                                     *)
(***************************************************************************)
AboveAscii == {BULLET, POUND, ENDASH, EMDASH, NONASCII}

PdfSafe(c) == c \notin AboveAscii \/ c \in {POUND, ENDASH, EMDASH}

sanitizeForPdf(txt) == Trim(SelectSeq(txt, PdfSafe))

(***************************************************************************)
(* font.widthOfTextAtSize: the sum of the glyphs' advance widths (in       *)
(* 1/1000 em) times the size; the result is in 1/1000 point.  The widths   *)
(* are Helvetica's for the characters listed and 556 (the commonest        *)
(* lowercase and digit width) for the rest.                                *)
(***************************************************************************)
GlyphWidth(c) ==
  CASE c \in {" ", ".", ":", ",", "/", "\t", "\n", "\r"} -> 278
    [] c \in {"i", "l"} -> 222
    [] c \in {"-", "(", ")"} -> 333
    [] c = "W" -> 944
    [] c \in Upper \ {"W", "I"} -> 667
    [] OTHER -> 556

RECURSIVE GlyphSum(_)
GlyphSum(s) == IF s = <<>> THEN 0 ELSE GlyphWidth(Head(s)) + GlyphSum(Tail(s))

widthOfTextAtSize(s, size) == GlyphSum(s) * size

\* font.widthOfTextAtSize(test, size) > maxWidth, maxWidth in points
Exceeds(s, size, maxWidth) == widthOfTextAtSize(s, size) > maxWidth * 1000

(***************************************************************************)
(* String(txt).split(/\s+/): the pieces between maximal runs of            *)
(* whitespace; a leading or trailing run leaves an empty piece, and the    *)
(* empty string splits into one empty piece.                               *)
(***************************************************************************)
RECURSIVE SplitWsFrom(_, _, _, _, _)
SplitWsFrom(s, i, cur, acc, inWs) ==
  IF i > Len(s) THEN Append(acc, cur)
  ELSE IF IsSpace(s[i])
       THEN IF inWs THEN SplitWsFrom(s, i + 1, cur, acc, TRUE)
            ELSE SplitWsFrom(s, i + 1, <<>>, Append(acc, cur), TRUE)
       ELSE SplitWsFrom(s, i + 1, Append(cur, s[i]), acc, FALSE)

SplitWs(s) == SplitWsFrom(s, 1, <<>>, <<>>, FALSE)

(***************************************************************************)
(* wrap: greedy line fill.                                                 *)
(***************************************************************************)
fsTitle == 16
fsBody == 11
margin == 50

\* A slip in the loop: the row that is measured is cur, not cur plus the word.
RECURSIVE wrapFromMeasuresCur(_, _, _, _, _, _)
wrapFromMeasuresCur(words, i, cur, rws, maxWidth, size) ==
  IF i > Len(words) THEN Append(rws, cur)
  ELSE LET w == words[i]
           test == IF cur # <<>> THEN cur \o <<" ">> \o w ELSE w
       IN IF Exceeds(cur, size, maxWidth) /\ cur # <<>>
          THEN wrapFromMeasuresCur(words, i + 1, w, Append(rws, cur),
                                   maxWidth, size)
          ELSE wrapFromMeasuresCur(words, i + 1, test, rws, maxWidth, size)

\* A slip in the loop: the word that did not fit is not carried over.
RECURSIVE wrapFromDropsWord(_, _, _, _, _, _)
wrapFromDropsWord(words, i, cur, rws, maxWidth, size) ==
  IF i > Len(words) THEN Append(rws, cur)
  ELSE LET w == words[i]
           test == IF cur # <<>> THEN cur \o <<" ">> \o w ELSE w
       IN IF Exceeds(test, size, maxWidth) /\ cur # <<>>
          THEN wrapFromDropsWord(words, i + 1, <<>>, Append(rws, cur),
                                 maxWidth, size)
          ELSE wrapFromDropsWord(words, i + 1, test, rws, maxWidth, size)

\* The for loop of wrap and the final rows.push(cur || "").
RECURSIVE wrapFrom(_, _, _, _, _, _)
wrapFrom(words, i, cur, rws, maxWidth, size) ==
  IF i > Len(words) THEN Append(rws, cur)
  ELSE LET w == words[i]
           test == IF cur # <<>> THEN cur \o <<" ">> \o w ELSE w
       IN IF Exceeds(test, size, maxWidth) /\ cur # <<>>
          THEN wrapFrom(words, i + 1, w, Append(rws, cur), maxWidth, size)
          ELSE wrapFrom(words, i + 1, test, rws, maxWidth, size)

wrap(txt, maxWidth, size) ==
  wrapFrom(SplitWs(txt), 1, <<>>, <<>>, maxWidth, size)

(***************************************************************************)
(* SpecWrap: wrap() on every string of at most MaxLen characters over a    *)
(* narrow glyph, a wide glyph, a space and a line feed, for every width    *)
(* up to MaxWidth points, at the body size.                                *)
(***************************************************************************)
WrapAlphabet == {"i", "W", " ", "\n"}

Strings(alphabet, n) == UNION {[1..k -> alphabet] : k \in 0..n}

IdlePdf ==
  /\ ppc = "idle" /\ page = 0 /\ pageCount = 0 /\ y = 0 /\ drawn = <<>>
  /\ calls = <<>> /\ ci = 0 /\ rows = <<>>

IdleAsk ==
  /\ pc = "off" /\ text = <<>> /\ reportText = <<>> /\ ts = <<>> /\ clock = 1
  /\ globalIndex = 0 /\ count = 0 /\ docParagraphs = <<>>
  /\ pdfBuf = FALSE /\ docBuf = FALSE /\ threw = "none" /\ mailed = {}
  /\ status = 0

IdleWrap == wpc = "idle" /\ wtxt = <<>> /\ wmax = 0 /\ wrows = <<>>

InitWrap ==
  /\ wpc = "call"
  /\ wtxt \in Strings(WrapAlphabet, MaxLen)
  /\ wmax \in 0..MaxWidth
  /\ wrows = <<>>
  /\ IdlePdf /\ IdleAsk

WrapCall ==
  /\ wpc = "call"
  /\ wrows' = wrap(wtxt, wmax, fsBody)
  /\ wpc' = "done"
  /\ UNCHANGED <<wtxt, wmax, pvars, avars>>

NextWrap == WrapCall

SpecWrap == InitWrap /\ [][NextWrap]_vars

\* The whitespace-delimited tokens of a string, in order.
Tokens(s) == SelectSeq(SplitWs(s), LAMBDA w : w # <<>>)

RECURSIVE JoinWith(_, _)
JoinWith(ss, sep) ==
  IF ss = <<>> THEN <<>>
  ELSE IF Len(ss) = 1 THEN ss[1]
  ELSE ss[1] \o sep \o JoinWith(Tail(ss), sep)

IsOneToken(r) == r # <<>> /\ \A i \in 1..Len(r) : ~IsSpace(r[i])

\* C2 (wrap correctness): every row wrap() returns measures at most the
\* maximum width, except a row that is one whitespace-free token which is
\* itself wider than the maximum.
WrapRowsFit ==
  wpc = "done" =>
    \A k \in 1..Len(wrows) :
      \/ ~Exceeds(wrows[k], fsBody, wmax)
      \/ IsOneToken(wrows[k])

\* A call that returned both a row of several tokens and an oversized token.
WrapRowsFitWitness ==
  /\ wpc = "done"
  /\ \E k \in 1..Len(wrows) : Len(Tokens(wrows[k])) >= 2
  /\ \E k \in 1..Len(wrows) :
       IsOneToken(wrows[k]) /\ Exceeds(wrows[k], fsBody, wmax)

\* C3 (row order preservation): the rows joined with single spaces hold
\* exactly the input's whitespace-delimited tokens, in the input's order.
WrapKeepsTokens ==
  wpc = "done" => Tokens(JoinWith(wrows, <<" ">>)) = Tokens(wtxt)

\* A call that broke three tokens over at least two rows.
WrapKeepsTokensWitness ==
  /\ wpc = "done"
  /\ Len(wrows) >= 2
  /\ Len(Tokens(wtxt)) >= 3
  /\ \E k \in 1..Len(wrows) : Len(Tokens(wrows[k])) >= 2

(***************************************************************************)
(* buildPdfBufferStructured.  Vertical positions are in tenths of a point, *)
(* so that lh = fsBody * 1.4 and fsTitle * 1.4 are integers.               *)
(***************************************************************************)
lh == fsBody * 14
titleHeight == fsTitle * 14
top == (PageHeight - margin) * 10
bottom == margin * 10

\* A slip in ensure: the cursor alone is compared with the margin.
ensureIgnoresNeed(yy, pg, cnt, need) ==
  IF yy < bottom
  THEN [page |-> cnt + 1, pageCount |-> cnt + 1, y |-> top]
  ELSE [page |-> pg, pageCount |-> cnt, y |-> yy]

\* ensure(need): a new page and the cursor back at the top when the unit
\* does not fit above the bottom margin.
ensure(yy, pg, cnt, need) ==
  IF yy - need < bottom
  THEN [page |-> cnt + 1, pageCount |-> cnt + 1, y |-> top]
  ELSE [page |-> pg, pageCount |-> cnt, y |-> yy]

TitleText ==
  <<"E", "C", "M", " ", "A", "s", "s", "i", "s", "t", "a", "n", "t", " ",
    "R", "e", "p", "o", "r", "t">>
PreparedFor ==
  <<"P", "r", "e", "p", "a", "r", "e", "d", " ", "f", "o", "r", ":", " ">>
NotAvailable == <<"N", "/", "A">>
TimestampUK ==
  <<"T", "i", "m", "e", "s", "t", "a", "m", "p", " ", "(", "U", "K", ")",
    ":", " ">>
IsoSample ==
  <<"2", "0", "2", "5", "-", "1", "0", "-", "2", "9", "T", "1", "6", ":",
    "1", "5", ":", "0", "0", ".", "0", "0", "0", "Z">>

Para(txt) == [kind |-> "para", txt |-> txt]
Gap == [kind |-> "gap", txt |-> <<>>]

\* The content stream of lines 200-204, in call order.
ContentStream(fullName, stamp, question, report) ==
  << Para(PreparedFor \o (IF fullName # <<>> THEN fullName ELSE NotAvailable)),
     Para(TimestampUK \o stamp),
     Gap,
     Para(question),
     Para(report) >>

PdfChunks == {<<"W", "i">>, <<"i">>, <<" ">>, <<"\n">>, <<BULLET>>}
PdfTexts == {Concat(cs) : cs \in Strings(PdfChunks, MaxChunks)}
PdfNames == {<<>>, <<"i">>}
PdfQuestions == {<<"i">>, <<"W", "i", " ", "W", "i", " ", "W", "i">>}

InitPdf ==
  /\ ppc = "title"
  /\ page = 1 /\ pageCount = 1
  /\ y = top
  /\ drawn = <<>>
  /\ calls \in {ContentStream(n, IsoSample, q, r) :
                  n \in PdfNames, q \in PdfQuestions, r \in PdfTexts}
  /\ ci = 0
  /\ rows = <<>>
  /\ IdleWrap /\ IdleAsk

Unit(k, txt, e, need, yBefore, pagesBefore) ==
  [unit |-> k, txt |-> txt, page |-> e.page, y |-> e.y, need |-> need,
   yBefore |-> yBefore, pagesBefore |-> pagesBefore, pages |-> e.pageCount]

\* draw("ECM Assistant Report", margin, y, fsTitle, fontBold); y -= fsTitle * 1.4
DrawTitle ==
  /\ ppc = "title"
  /\ drawn' = Append(drawn,
       Unit(0, TitleText, [page |-> page, pageCount |-> pageCount, y |-> y],
            titleHeight, y, pageCount))
  /\ y' = y - titleHeight
  /\ ppc' = "next"
  /\ UNCHANGED <<page, pageCount, calls, ci, rows, wvars, avars>>

\* para(txt, margin): sanitize and wrap against width - x - margin.
ParaBegin ==
  /\ ppc = "next"
  /\ ci < Len(calls)
  /\ calls[ci + 1].kind = "para"
  /\ ci' = ci + 1
  /\ rows' = wrap(sanitizeForPdf(calls[ci + 1].txt),
                  PageWidth - margin - margin, fsBody)
  /\ ppc' = "rows"
  /\ UNCHANGED <<page, pageCount, y, drawn, calls, wvars, avars>>

\* A slip in the loop: a row that meets a full page is not drawn.
ParaRowSkipsAtBreak ==
  /\ ppc = "rows"
  /\ rows # <<>>
  /\ LET e == ensure(y, page, pageCount, lh)
     IN /\ page' = e.page
        /\ pageCount' = e.pageCount
        /\ drawn' = IF e.pageCount # pageCount THEN drawn
                    ELSE Append(drawn, Unit(ci, Head(rows), e, lh, y, pageCount))
        /\ y' = e.y - lh
  /\ rows' = Tail(rows)
  /\ ppc' = IF Tail(rows) = <<>> THEN "next" ELSE "rows"
  /\ UNCHANGED <<calls, ci, wvars, avars>>

\* One turn of para's loop: ensure(); draw(r, x, y, size, font); y -= lh.
ParaRow ==
  /\ ppc = "rows"
  /\ rows # <<>>
  /\ LET e == ensure(y, page, pageCount, lh)
     IN /\ page' = e.page
        /\ pageCount' = e.pageCount
        /\ drawn' = Append(drawn, Unit(ci, Head(rows), e, lh, y, pageCount))
        /\ y' = e.y - lh
  /\ rows' = Tail(rows)
  /\ ppc' = IF Tail(rows) = <<>> THEN "next" ELSE "rows"
  /\ UNCHANGED <<calls, ci, wvars, avars>>

\* y -= lh between the timestamp and the question.
SkipLine ==
  /\ ppc = "next"
  /\ ci < Len(calls)
  /\ calls[ci + 1].kind = "gap"
  /\ ci' = ci + 1
  /\ y' = y - lh
  /\ UNCHANGED <<ppc, page, pageCount, drawn, calls, rows, wvars, avars>>

\* pdfDoc.save()
Save ==
  /\ ppc = "next"
  /\ ci = Len(calls)
  /\ ppc' = "done"
  /\ UNCHANGED <<page, pageCount, y, drawn, calls, ci, rows, wvars, avars>>

NextPdf == DrawTitle \/ ParaBegin \/ ParaRow \/ SkipLine \/ Save

SpecPdf == InitPdf /\ [][NextPdf]_vars

\* The rows drawn for content unit k, in drawing order.
DrawnOf(k) ==
  LET ds == SelectSeq(drawn, LAMBDA d : d.unit = k)
  IN [i \in 1..Len(ds) |-> ds[i].txt]

WrappedOf(k) ==
  wrap(sanitizeForPdf(calls[k].txt), PageWidth - margin - margin, fsBody)

\* C1 (pagination completeness): for every content stream given to para(),
\* the rows drawn are the rows wrap() returns for it, in order and once
\* each (all of them once the call has returned, the rows so far while it
\* runs), and drawing order is page order, so a page break neither drops,
\* repeats nor reorders a row.
PaginationComplete ==
  /\ \A k \in 1..Len(calls) :
       calls[k].kind = "para" =>
         IF k < ci \/ (k = ci /\ ppc # "rows")
         THEN DrawnOf(k) = WrappedOf(k)
         ELSE IF k = ci
         THEN DrawnOf(k) \o rows = WrappedOf(k)
         ELSE DrawnOf(k) = <<>>
  /\ \A i \in 1..Len(drawn) :
       /\ drawn[i].page \in 1..pageCount
       /\ i > 1 => drawn[i].page \in {drawn[i - 1].page, drawn[i - 1].page + 1}

\* A finished document in which the report's rows straddle a page break.
PaginationCompleteWitness ==
  /\ ppc = "done"
  /\ \E i \in 2..Len(drawn) :
       /\ drawn[i].unit = Len(calls)
       /\ drawn[i - 1].unit = Len(calls)
       /\ drawn[i].page = drawn[i - 1].page + 1

\* C10 (page cursor invariant): every unit placed (the title and every
\* wrapped row) is placed as the check prescribes: when the cursor less the
\* required space is below the bottom margin it goes to a newly allocated
\* page with the cursor at the top margin, otherwise it stays where the
\* cursor is; so it lies between the margins, on the newest page.
PageCursorInvariant ==
  \A i \in 1..Len(drawn) :
    LET d == drawn[i]
    IN /\ bottom <= d.y - d.need
       /\ d.y <= top
       /\ d.page = d.pages
       /\ IF d.yBefore - d.need < bottom
          THEN d.pages = d.pagesBefore + 1 /\ d.y = top
          ELSE d.pages = d.pagesBefore /\ d.y = d.yBefore

\* A finished document with a row placed first on a new page and a row
\* placed last above the bottom margin of a page.
PageCursorInvariantWitness ==
  /\ ppc = "done"
  /\ \E i \in 1..Len(drawn) :
       drawn[i].pages = drawn[i].pagesBefore + 1 /\ drawn[i].y = top
  /\ \E i \in 1..Len(drawn) :
       drawn[i].unit > 0 /\ drawn[i].y - drawn[i].need - lh < bottom

(***************************************************************************)
(* POST /ask: the text operations of the handler.                          *)
(***************************************************************************)
Bullets == {"-", BULLET}

\* The class [\).\s] that ends a numbered or lettered marker.
IsMarkEnd(c) == c \in {")", "."} \/ IsSpace(c)

\* The length of the longest prefix of s made of characters of set cs.
RECURSIVE LeadingIn(_, _)
LeadingIn(s, cs) ==
  IF s # <<>> /\ Head(s) \in cs THEN 1 + LeadingIn(Tail(s), cs) ELSE 0

Drop(s, n) == SubSeq(s, n + 1, Len(s))

DigitSeq == <<"0", "1", "2", "3", "4", "5", "6", "7", "8", "9">>

\* String(n) of a natural number
RECURSIVE Str(_)
Str(n) == IF n < 10 THEN <<DigitSeq[n + 1]>>
          ELSE Str(n \div 10) \o <<DigitSeq[(n % 10) + 1]>>

\* String(n).padStart(2, "0")
Pad2(n) == IF Len(Str(n)) < 2 THEN <<"0">> \o Str(n) ELSE Str(n)

\* The dates the clock passes through: the last day of a year and the next.
Days == << [year |-> 2025, month |-> 12, day |-> 31],
           [year |-> 2026, month |-> 1, day |-> 1] >>

\* new Date().toISOString() on day d (the time of day is immaterial here)
IsoString(d) ==
  Str(d.year) \o <<"-">> \o Pad2(d.month) \o <<"-">> \o Pad2(d.day)
    \o <<"T", "1", "6", ":", "1", "5", ":", "0", "0", ".", "0", "0", "0", "Z">>

\* dateSeed: String(getFullYear()).slice(2), month and day padded to two
dateSeed(d) == Drop(Str(d.year), 2) \o Pad2(d.month) \o Pad2(d.day)

\* The marker phrase at which the flowable body stops.
FooterMarker ==
  <<"T", "h", "i", "s", " ", "r", "e", "p", "o", "r", "t", " ", "w", "a",
    "s", " ", "p", "r", "e", "p", "a", "r", "e", "d", " ", "u", "s", "i",
    "n", "g">>

RegNo ==
  <<"R", "e", "g", ".", " ", "N", "o", ".", " ", "A", "I", "V", "S", "/",
    "U", "K", "/">>

\* The footer template of generateECMAssistant and of the handler, after
\* its leading line feeds: the marker phrase opening the boilerplate, and
\* the line "Reg. No. AIVS/UK/<dateSeed>-<randomPart>/<n>".  The
\* boilerplate between the two, the fairness line and the copyright line
\* are text that no operation modelled here reads; they are left out.
FooterTemplate(seed, randomPart, n) ==
  FooterMarker \o <<"\n", "\n">> \o RegNo \o seed \o <<"-">>
    \o Str(randomPart) \o <<"/">> \o Str(n)

\* text.replace(/8\)\s*Appendix[\s\S]*$/gi, ""): cut from the first
\* "8)", optional whitespace, "appendix" in any case, to the end.
AppendixWord ==
  << {"A", "a"}, {"P", "p"}, {"P", "p"}, {"E", "e"}, {"N", "n"},
     {"D", "d"}, {"I", "i"}, {"X", "x"} >>

AppendixAt(s, i) ==
  /\ i + 1 <= Len(s)
  /\ s[i] = "8" /\ s[i + 1] = ")"
  /\ LET rest == TrimLeft(Drop(s, i + 1))
     IN /\ Len(rest) >= Len(AppendixWord)
        /\ \A k \in 1..Len(AppendixWord) : rest[k] \in AppendixWord[k]

StripAppendix(s) ==
  IF \E i \in 1..Len(s) : AppendixAt(s, i)
  THEN LET i == CHOOSE j \in 1..Len(s) :
                  AppendixAt(s, j) /\ \A k \in 1..(j - 1) : ~AppendixAt(s, k)
       IN SubSeq(s, 1, i - 1)
  ELSE s

Indices(s) == [i \in 1..Len(s) |-> i]

\* s.replace(/\n{2,}/g, "\n"): of every run of line feeds the first stays.
CollapseNewlines(s) ==
  LET keep == SelectSeq(Indices(s),
                LAMBDA i : ~(s[i] = "\n" /\ i > 1 /\ s[i - 1] = "\n"))
  IN [k \in 1..Len(keep) |-> s[keep[k]]]

\* s.split(/\n| {2,}/): a line feed or a run of two or more spaces
\* separates; empty pieces are kept.  SepStart: a separator starts at i;
\* SepEnd: where the separator starting at i ends.
SepStart(s, i) ==
  \/ s[i] = "\n"
  \/ /\ s[i] = " "
     /\ i < Len(s) /\ s[i + 1] = " "
     /\ (i = 1 \/ s[i - 1] # " ")

SepEnd(s, i) ==
  IF s[i] = "\n" THEN i ELSE i + LeadingIn(Drop(s, i - 1), {" "}) - 1

SplitLines(s) ==
  LET starts == SelectSeq(Indices(s), LAMBDA i : SepStart(s, i))
  IN [k \in 1..(Len(starts) + 1) |->
        SubSeq(s,
               IF k = 1 THEN 1 ELSE SepEnd(s, starts[k - 1]) + 1,
               IF k <= Len(starts) THEN starts[k] - 1 ELSE Len(s))]

\* const lines = String(reportText || "").replace(...).split(...)
Lines(s) == SplitLines(CollapseNewlines(s))

(***************************************************************************)
(* The regular expressions of the classification loop, on a trimmed line.  *)
(***************************************************************************)
\* /^\d+[\).\s]/
HeadingRe(t) ==
  LET k == LeadingIn(t, Digits)
  IN k >= 1 /\ Len(t) > k /\ IsMarkEnd(t[k + 1])

\* /^[A-Z][\).\s]/
SubHeadingRe(t) == Len(t) >= 2 /\ t[1] \in Upper /\ IsMarkEnd(t[2])

\* /^[-BULLET]?\s*[A-Z].*:\s*$/  (the dot matches no line terminator)
LabelRe(t) ==
  LET a == IF t # <<>> /\ t[1] \in Bullets THEN 1 ELSE 0
      j == a + LeadingIn(Drop(t, a), {" ", "\t", "\n", "\r"}) + 1
  IN /\ j <= Len(t)
     /\ t[j] \in Upper
     /\ \E c \in (j + 1)..Len(t) :
          /\ t[c] = ":"
          /\ \A k \in (c + 1)..Len(t) : IsSpace(t[k])
          /\ \A k \in (j + 1)..(c - 1) : t[k] \notin {"\n", "\r"}

\* /^[-BULLET]/
BulletRe(t) == t # <<>> /\ t[1] \in Bullets

\* t.replace(/^[A-Z][\).\s]+/, "")
StripLetter(t) ==
  IF SubHeadingRe(t)
  THEN Drop(t, 1 + LeadingIn(Tail(t), {")", ".", " ", "\t", "\n", "\r"}))
  ELSE t

\* t.replace(/^[-BULLET]\s*/, by)
ReplaceBullet(t, by) ==
  IF BulletRe(t)
  THEN by \o Drop(t, 1 + LeadingIn(Tail(t), {" ", "\t", "\n", "\r"}))
  ELSE t

Block(role, txt) == [role |-> role, text |-> txt]

\* A slip in the chain: the bullet rule is tried before the label rule.
ClassifyLineBulletFirst(t) ==
  IF HeadingRe(t) THEN Block("Heading", t)
  ELSE IF SubHeadingRe(t) THEN Block("SubHeading", Trim(StripLetter(t)))
  ELSE IF BulletRe(t)
  THEN Block("Bullet", Trim(ReplaceBullet(t, <<BULLET, " ">>)))
  ELSE IF LabelRe(t) THEN Block("Label", Trim(ReplaceBullet(t, <<>>)))
  ELSE Block("Body", t)

\* The rule chain of the loop body for a line that is neither empty nor
\* the footer marker: the paragraph pushed for it.
ClassifyLine(t) ==
  IF HeadingRe(t) THEN Block("Heading", t)
  ELSE IF SubHeadingRe(t) THEN Block("SubHeading", Trim(StripLetter(t)))
  ELSE IF LabelRe(t) THEN Block("Label", Trim(ReplaceBullet(t, <<>>)))
  ELSE IF BulletRe(t)
  THEN Block("Bullet", Trim(ReplaceBullet(t, <<BULLET, " ">>)))
  ELSE Block("Body", t)

\* A slip in the loop: the footer marker skips its line and goes on.
RECURSIVE BodyFromContinues(_, _, _)
BodyFromContinues(lines, i, acc) ==
  IF i > Len(lines) THEN acc
  ELSE LET t == Trim(lines[i])
       IN IF t = <<>>
          THEN BodyFromContinues(lines, i + 1, Append(acc, Block("Blank", <<>>)))
          ELSE IF StartsWith(t, FooterMarker)
          THEN BodyFromContinues(lines, i + 1, acc)
          ELSE BodyFromContinues(lines, i + 1, Append(acc, ClassifyLine(t)))

\* for (const raw of lines): a blank paragraph for an empty line, a break
\* at the footer marker, else the classified paragraph.
RECURSIVE BodyFrom(_, _, _)
BodyFrom(lines, i, acc) ==
  IF i > Len(lines) THEN acc
  ELSE LET t == Trim(lines[i])
       IN IF t = <<>>
          THEN BodyFrom(lines, i + 1, Append(acc, Block("Blank", <<>>)))
          ELSE IF StartsWith(t, FooterMarker)
          THEN acc
          ELSE BodyFrom(lines, i + 1, Append(acc, ClassifyLine(t)))

(***************************************************************************)
(* POST /ask: the handler.  globalIndex is null or the length of the       *)
(* preloaded index; clock is the position of today in Days.                *)
(***************************************************************************)
null == -1
minScore == 3        \* m.score >= 0.03, scores in hundredths
ScoreSamples == {2, 3}
RandomParts == {1000, 9999}   \* Math.floor(1000 + Math.random() * 9000)

GeneratedPrefix == <<"G", "e", "n", "e", "r", "a", "t", "e", "d", " ">>

Scenario ==
  <<"1", ".", " ", "Q", "u", "e", "r", "y", "\n", "W", "h", "a", "t", " ",
    "i", "s", " ", "r", "e", "q", "u", "i", "r", "e", "d", "?", "\n", "-",
    " ", "I", "t", "e", "m", " ", "o", "n", "e", "\n", "-", " ", "I", "t",
    "e", "m", " ", "t", "w", "o", "\n", "L", "a", "b", "e", "l", " ", "H",
    "e", "a", "d", "i", "n", "g", ":", "\n", "S", "o", "m", "e", " ", "b",
    "o", "d", "y", " ", "t", "e", "x", "t", " ", "h", "e", "r", "e", ".">>

\* matches.filter((m) => m.score >= 0.03)
filtered(ms) == SelectSeq(ms, LAMBDA m : m >= minScore)

\* queryFaissIndex: the counts it can report.  The index searched is the
\* preloaded one or, when that is null, one loaded now; searchIndex gives
\* at most one match per vector; the matches scoring at least 0.03 are
\* counted; any failure is caught and reported as count 0.

queryFaissIndex(index) ==
  LET size == IF index # null THEN index ELSE MaxIndex
  IN {Len(filtered(ms)) : ms \in UNION {[1..k -> ScoreSamples] : k \in 0..size}}
     \cup {0}

\* if (!question) return res.status(400)
AskMissing ==
  /\ pc = "idle"
  /\ status' = 400
  /\ pc' = "done"
  /\ UNCHANGED <<text, reportText, ts, clock, globalIndex, count,
                 docParagraphs, pdfBuf, docBuf, threw, mailed, wvars, pvars>>

\* const ts = new Date().toISOString()
AskStart ==
  /\ pc = "idle"
  /\ ts' = IsoString(Days[clock])
  /\ pc' = "generate"
  /\ UNCHANGED <<text, reportText, clock, globalIndex, count, docParagraphs,
                 pdfBuf, docBuf, threw, mailed, status, wvars, pvars>>

\* generateECMAssistant returns: the completion trimmed, the appendix cut,
\* trimmed again, then two line feeds and the footer (which opens with two
\* more) carrying today's registration code and the retrieval count.
GenerateOk ==
  /\ pc = "generate"
  /\ \E c \in queryFaissIndex(globalIndex), r \in RandomParts :
       /\ count' = c
       /\ reportText' = Trim(StripAppendix(Trim(text)))
            \o <<"\n", "\n">> \o <<"\n", "\n">>
            \o FooterTemplate(dateSeed(Days[clock]), r, c)
  /\ pc' = "pdf"
  /\ UNCHANGED <<text, ts, clock, globalIndex, docParagraphs, pdfBuf, docBuf,
                 threw, mailed, status, wvars, pvars>>

\* generateECMAssistant throws (the completion call fails): caught at 397.
GenerateThrows ==
  /\ pc = "generate"
  /\ threw' = "llm"
  /\ status' = 500
  /\ pc' = "done"
  /\ UNCHANGED <<text, reportText, ts, clock, globalIndex, count,
                 docParagraphs, pdfBuf, docBuf, mailed, wvars, pvars>>

\* const pdfBuf = await buildPdfBufferStructured(...)
BuildPdfOk ==
  /\ pc = "pdf"
  /\ pdfBuf' = TRUE
  /\ pc' = "doc"
  /\ UNCHANGED <<text, reportText, ts, clock, globalIndex, count,
                 docParagraphs, docBuf, threw, mailed, status, wvars, pvars>>

\* buildPdfBufferStructured throws: caught at 397, status 500.
BuildPdfThrows ==
  /\ pc = "pdf"
  /\ threw' = "pdf"
  /\ status' = 500
  /\ pc' = "done"
  /\ UNCHANGED <<text, reportText, ts, clock, globalIndex, count,
                 docParagraphs, pdfBuf, docBuf, mailed, wvars, pvars>>

\* Lines 227-339: title, "Generated <ts>", the body loop, the footer.
BuildDoc ==
  /\ pc = "doc"
  /\ \E r \in RandomParts :
       docParagraphs' =
         << Block("Title", TitleText), Block("Generated", GeneratedPrefix \o ts) >>
         \o BodyFrom(Lines(reportText), 1, <<>>)
         \o << Block("Footer",
                 <<"\n">> \o FooterTemplate(dateSeed(Days[clock]), r,
                                IF globalIndex # null THEN globalIndex ELSE 0)) >>
  /\ pc' = "pack"
  /\ UNCHANGED <<text, reportText, ts, clock, globalIndex, count, pdfBuf,
                 docBuf, threw, mailed, status, wvars, pvars>>

\* const docBuf = await Packer.toBuffer(doc)
PackOk ==
  /\ pc = "pack"
  /\ docBuf' = TRUE
  /\ pc' = "mail"
  /\ UNCHANGED <<text, reportText, ts, clock, globalIndex, count,
                 docParagraphs, pdfBuf, threw, mailed, status, wvars, pvars>>

\* A slip: the encoding failure is logged and the handler goes on.
PackThrowsSwallowed ==
  /\ pc = "pack"
  /\ threw' = "docx"
  /\ pc' = "mail"
  /\ UNCHANGED <<text, reportText, ts, clock, globalIndex, count,
                 docParagraphs, pdfBuf, docBuf, mailed, status, wvars, pvars>>

\* Packer.toBuffer throws: caught at 397, status 500.
PackThrows ==
  /\ pc = "pack"
  /\ threw' = "docx"
  /\ status' = 500
  /\ pc' = "done"
  /\ UNCHANGED <<text, reportText, ts, clock, globalIndex, count,
                 docParagraphs, pdfBuf, docBuf, mailed, wvars, pvars>>

\* The buffers at hand go out as attachments; then res.json(...).
MailSent ==
  /\ pc = "mail"
  /\ mailed' = {a \in {"pdf", "docx"} :
                  (a = "pdf" /\ pdfBuf) \/ (a = "docx" /\ docBuf)}
  /\ status' = 200
  /\ pc' = "done"
  /\ UNCHANGED <<text, reportText, ts, clock, globalIndex, count,
                 docParagraphs, pdfBuf, docBuf, threw, wvars, pvars>>

\* The send fails: logged at 393, and res.json(...) all the same.
MailFails ==
  /\ pc = "mail"
  /\ status' = 200
  /\ pc' = "done"
  /\ UNCHANGED <<text, reportText, ts, clock, globalIndex, count,
                 docParagraphs, pdfBuf, docBuf, threw, mailed, wvars, pvars>>

\* Midnight passes while the request is being served.
Tick ==
  /\ pc \notin {"off", "done"}
  /\ clock < Len(Days)
  /\ clock' = clock + 1
  /\ UNCHANGED <<pc, text, reportText, ts, globalIndex, count, docParagraphs,
                 pdfBuf, docBuf, threw, mailed, status, wvars, pvars>>

\* globalIndex = await loadIndex(10000) of the start-up preload completes.
PreloadDone ==
  /\ pc \notin {"off", "done"}
  /\ globalIndex = null
  /\ globalIndex' \in 0..MaxIndex
  /\ UNCHANGED <<pc, text, reportText, ts, clock, count, docParagraphs,
                 pdfBuf, docBuf, threw, mailed, status, wvars, pvars>>

NextAsk ==
  \/ AskMissing \/ AskStart \/ GenerateOk \/ GenerateThrows
  \/ BuildPdfOk \/ BuildPdfThrows \/ BuildDoc
  \/ PackOk \/ PackThrows \/ MailSent \/ MailFails

Next == NextAsk \/ Tick \/ PreloadDone

ReadyAsk ==
  /\ pc = "idle" /\ reportText = <<>> /\ ts = <<>> /\ clock = 1
  /\ count = 0 /\ docParagraphs = <<>>
  /\ pdfBuf = FALSE /\ docBuf = FALSE /\ threw = "none" /\ mailed = {}
  /\ status = 0

\* Spec: the handler with its environment (the clock, the preload), on a
\* few completions.
AskTexts ==
  { <<>>, Scenario, <<"1", ".", " ", "a">>,
    <<"a", "\n">> \o FooterMarker \o <<"\n", "b">> }

Init ==
  /\ ReadyAsk
  /\ text \in AskTexts
  /\ globalIndex = null
  /\ IdleWrap /\ IdlePdf

Spec == Init /\ [][Next]_vars

\* SpecDoc: the handler alone, the clock standing still and an empty
\* index preloaded, on every completion made of at most MaxChunks chunks.
DocChunks ==
  { <<"1">>, <<"A">>, <<"a">>, <<".">>, <<":">>, <<"-">>, <<BULLET>>,
    <<" ">>, <<"\n">>, FooterMarker }

ExtraTexts ==
  { Scenario,
    <<"1", ")", " ", "a">>,
    <<"B", ")", " ", "c">>,
    <<"a", "\n">> \o FooterMarker \o <<"\n", "b">>,
    <<"a", "\n", "8", ")", " ", " ", "a", "p", "p", "e", "n", "d", "i", "x",
      " ", "a">> }

DocTexts == {Concat(cs) : cs \in Strings(DocChunks, MaxChunks)} \cup ExtraTexts

InitDoc ==
  /\ ReadyAsk
  /\ text \in DocTexts
  /\ globalIndex = 0
  /\ IdleWrap /\ IdlePdf

SpecDoc == InitDoc /\ [][NextAsk]_vars

(***************************************************************************)
(* Properties of the handler.                                              *)
(***************************************************************************)
DocBuilt == pc \in {"pack", "mail", "done"} /\ docParagraphs # <<>>

\* The blocks between the "Generated" block and the last block.
BodyBlocks == SubSeq(docParagraphs, 3, Len(docParagraphs) - 1)

DocLines == Lines(reportText)

IsMarkerLine(l) == StartsWith(Trim(l), FooterMarker)

\* How many lines precede the first line beginning with the footer marker.
BeforeMarker(lines) ==
  LET hits == {k \in 1..Len(lines) : IsMarkerLine(lines[k])}
  IN IF hits = {} THEN Len(lines)
     ELSE (CHOOSE k \in hits : \A j \in hits : k <= j) - 1

\* The role the stated priority list gives a trimmed line.
RoleByPriority(t) ==
  CASE t = <<>> -> "Blank"
    [] t # <<>> /\ HeadingRe(t) -> "Heading"
    [] t # <<>> /\ ~HeadingRe(t) /\ SubHeadingRe(t) -> "SubHeading"
    [] t # <<>> /\ ~HeadingRe(t) /\ ~SubHeadingRe(t) /\ LabelRe(t) -> "Label"
    [] t # <<>> /\ ~HeadingRe(t) /\ ~SubHeadingRe(t) /\ ~LabelRe(t)
         /\ BulletRe(t) -> "Bullet"
    [] OTHER -> "Body"

RolesOf(blocks) == [k \in 1..Len(blocks) |-> blocks[k].role]

\* C4 as stated: every line of the report receives exactly one role, the
\* one the priority list Blank, Heading, SubHeading, Label, Bullet, Body
\* gives it.
ClassificationEveryLine ==
  DocBuilt =>
    LET lines == DocLines
        body == BodyBlocks
    IN /\ Len(body) = Len(lines)
       /\ \A k \in 1..Len(lines) :
            body[k].role = RoleByPriority(Trim(lines[k]))

\* C4 (classification priority), amended: every line that precedes the
\* first line beginning with the footer marker receives exactly one role,
\* the one the priority list gives it; that line and the lines after it
\* receive none; and the six lines of the scenario are classified Heading,
\* Body, Bullet, Bullet, Label, Body.
ClassificationPriority ==
  DocBuilt =>
    LET lines == DocLines
        body == BodyBlocks
        n == BeforeMarker(lines)
    IN /\ Len(body) = n
       /\ \A k \in 1..n : body[k].role = RoleByPriority(Trim(lines[k]))
       /\ text = Scenario =>
            SubSeq(RolesOf(body), 1, 6) =
              <<"Heading", "Body", "Bullet", "Bullet", "Label", "Body">>

\* The scenario has been rendered: six body blocks, the fifth the label.
ClassificationPriorityWitness ==
  /\ DocBuilt
  /\ text = Scenario
  /\ Len(BodyBlocks) = 6
  /\ BodyBlocks[5] = Block("Label", <<"L", "a", "b", "e", "l", " ", "H", "e",
                                      "a", "d", "i", "n", "g", ":">>)

MarkedRoles == {"Heading", "SubHeading", "Label", "Bullet"}

MatchesMarker(t) == HeadingRe(t) \/ SubHeadingRe(t) \/ LabelRe(t) \/ BulletRe(t)

\* C5 (classification idempotence): the text emitted for a Heading,
\* SubHeading, Label or Bullet line matches no marker pattern when it is
\* classified again.
StrippedTextHasNoMarker ==
  DocBuilt =>
    \A k \in 1..Len(BodyBlocks) :
      BodyBlocks[k].role \in MarkedRoles => ~MatchesMarker(BodyBlocks[k].text)

\* The year, month and day of an ISO timestamp, as the date seed writes them.
SeedOfIso(iso) == SubSeq(iso, 3, 4) \o SubSeq(iso, 6, 7) \o SubSeq(iso, 9, 10)

\* C6 (footer determinism): the footer block's registration code carries
\* the year, month and day of the request's timestamp ts, and its item
\* count is the count the retrieval reported for this request.
FooterMatchesRequest ==
  DocBuilt =>
    \E r \in RandomParts :
      docParagraphs[Len(docParagraphs)].text =
        <<"\n">> \o FooterTemplate(SeedOfIso(ts), r, count)

\* C7 (no partial success): when the PDF or the DOCX encoding throws, the
\* call ends with status 500, nothing is mailed and no success response is
\* produced; what is mailed is both documents or nothing.
NoPartialSuccess ==
  /\ threw \in {"pdf", "docx"} => mailed = {} /\ status = 500 /\ pc = "done"
  /\ mailed \in {{}, {"pdf", "docx"}}
  /\ status = 200 => threw = "none" /\ pdfBuf /\ docBuf

\* The DOCX encoding threw after the PDF had been built.
NoPartialSuccessWitness ==
  /\ threw = "docx"
  /\ pdfBuf
  /\ docParagraphs # <<>>
  /\ status = 500

\* C8 (empty input): an empty report yields exactly the title block, the
\* "Generated" block and the footer block.
EmptyReportMinimal ==
  (DocBuilt /\ text = <<>>) =>
    RolesOf(docParagraphs) = <<"Title", "Generated", "Footer">>

\* The block a line gives when the loop reaches it.
DerivedBlock(l) ==
  IF Trim(l) = <<>> THEN Block("Blank", <<>>) ELSE ClassifyLine(Trim(l))

\* C9 (flowable block sequence): the block list is the title block, the
\* "Generated <ts>" block, one block for each line that precedes the first
\* line beginning with the footer marker and for no other line, and then
\* the footer block, the only one and the last.
FlowableSequence ==
  DocBuilt =>
    LET lines == DocLines
        body == BodyBlocks
        last == docParagraphs[Len(docParagraphs)]
    IN /\ Len(docParagraphs) >= 3
       /\ docParagraphs[1] = Block("Title", TitleText)
       /\ docParagraphs[2] = Block("Generated", GeneratedPrefix \o ts)
       /\ last.role = "Footer"
       /\ StartsWith(last.text, <<"\n">> \o FooterMarker)
       /\ body = [k \in 1..BeforeMarker(lines) |-> DerivedBlock(lines[k])]
       /\ \A k \in 1..Len(body) :
            body[k].role \notin {"Title", "Generated", "Footer"}

\* A report whose own text holds a footer-marker line, with a line before
\* it and a line after it, ahead of the footer the generator appends.
FlowableSequenceWitness ==
  /\ DocBuilt
  /\ LET lines == DocLines
         n == BeforeMarker(lines)
     IN /\ n >= 1
        /\ Len(BodyBlocks) = n
        /\ \E k \in 1..Len(lines) :
             /\ k > n + 1
             /\ ~IsMarkerLine(lines[k])
             /\ Trim(lines[k]) # <<>>
             /\ \E j \in (k + 1)..Len(lines) : IsMarkerLine(lines[j])

====
